---------------------------- MODULE Spec2Model ----------------------------
(***************************************************************************)
(* A model of biofam/core/distributions/beta.py: the Beta distribution     *)
(* node (parameters a, b; expectations E, lnE, lnEInv; sampling).          *)
(*                                                                         *)
(* Numbers.  numpy's float64 is modelled by a decimal floating point with  *)
(* Digits significant digits (truncating), the IEEE specials +inf, -inf    *)
(* and NaN, overflow to infinity above 10^EMax and underflow to zero below *)
(* the smallest subnormal.  Signed zeros are not distinguished.            *)
(*                                                                         *)
(* Arrays.  A numpy array is a record [shape, data]: shape is <<>> for a   *)
(* scalar and <<n>> for a vector, data the elements in order.  Only ranks  *)
(* 0 and 1 are modelled.                                                   *)
(***************************************************************************)
EXTENDS Integers, Sequences, FiniteSets, TLC

(***************************************************************************)
(* Bounds of the model.                                                    *)
(***************************************************************************)
\* significant decimal digits kept by the modelled floating point
Digits == 3
\* longest declared dimension; the a and b arguments are one longer at most
MaxLen == 2
\* direct parameter writes by the owning model in one behaviour
MaxWrites == 1
\* largest n passed to sample(n)
MaxN == 2
\* variates the process-wide random source hands out in one behaviour
MaxDraws == 2

\* float64: largest decimal exponent of a finite value (about 1.8e308)
EMax == 308
\* float64: decimal exponent of the smallest subnormal (about 4.9e-324)
EMin == 0 - 324

(***************************************************************************)
(* Floating point.                                                         *)
(***************************************************************************)
RECURSIVE Pow10(_)
Pow10(n) == IF n = 0 THEN 1 ELSE 10 * Pow10(n - 1)

Abs(i) == IF i < 0 THEN 0 - i ELSE i

Sign(i) == IF i < 0 THEN 0 - 1 ELSE 1

\* F applied to the value of v.  TLC evaluates an operator's argument each
\* time the body names it; Let1 and Let2 evaluate it once.
Let1(v, F(_)) == CHOOSE r \in {F(w) : w \in {v}} : TRUE

Let2(v1, v2, F(_, _)) == CHOOSE r \in {F(w1, w2) : w1 \in {v1}, w2 \in {v2}} : TRUE

NaN  == [k |-> "nan",  m |-> 0, e |-> 0]
PInf == [k |-> "pinf", m |-> 0, e |-> 0]
NInf == [k |-> "ninf", m |-> 0, e |-> 0]
Zero == [k |-> "fin",  m |-> 0, e |-> 0]

\* a positive magnitude n * 10^e brought to exactly Digits digits
Base == Pow10(Digits)

RECURSIVE NormMag(_, _)
NormMag(n, e) ==
    IF n >= Base THEN NormMag(n \div 10, e + 1)
    ELSE IF n * 10 < Base THEN NormMag(n * 10, e - 1)
    ELSE <<n, e>>

\* the float nearest towards zero to m * 10^e, with overflow and underflow
Fin(m, e) ==
    IF m = 0 THEN Zero
    ELSE LET ne == NormMag(Abs(m), e)
             top == ne[2] + Digits - 1
         IN  IF top > EMax THEN (IF m > 0 THEN PInf ELSE NInf)
             ELSE IF top < EMin THEN Zero
             ELSE [k |-> "fin", m |-> Sign(m) * ne[1], e |-> ne[2]]

isnan(x) == x.k = "nan"

\* numpy.isinf: true of +inf and of -inf, false of NaN
isinf(x) == x.k \in {"pinf", "ninf"}

isfinite(x) == x.k = "fin"

fneg(x) ==
    CASE x.k = "nan"  -> NaN
      [] x.k = "pinf" -> NInf
      [] x.k = "ninf" -> PInf
      [] OTHER        -> [k |-> "fin", m |-> 0 - x.m, e |-> x.e]

\* x + y
fadd(x, y) ==
    CASE isnan(x) \/ isnan(y)     -> NaN
      [] isinf(x) /\ isinf(y)     -> IF x.k = y.k THEN x ELSE NaN
      [] isinf(x)                 -> x
      [] isinf(y)                 -> y
      [] x.m = 0                  -> y
      [] y.m = 0                  -> x
      [] OTHER ->
           LET hi == IF x.e >= y.e THEN x ELSE y
               lo == IF x.e >= y.e THEN y ELSE x
               d  == hi.e - lo.e
           IN  IF d > Digits THEN hi
               ELSE Fin(hi.m * Pow10(d) + lo.m, lo.e)

\* x - y
fsub(x, y) == fadd(x, fneg(y))

\* x / y (numpy.divide: a division by zero gives an infinity or NaN, no error)
fdiv(x, y) ==
    CASE isnan(x) \/ isnan(y)     -> NaN
      [] isinf(x) /\ isinf(y)     -> NaN
      [] isinf(x)                 -> IF (x.k = "pinf") = (y.m >= 0) THEN PInf ELSE NInf
      [] isinf(y)                 -> Zero
      [] y.m = 0                  -> IF x.m = 0 THEN NaN
                                     ELSE IF x.m > 0 THEN PInf ELSE NInf
      [] OTHER ->
           Fin(Sign(x.m) * Sign(y.m) * ((Abs(x.m) * Base) \div Abs(y.m)),
               x.e - y.e - Digits)

\* x < y, for finite x and y
flt(x, y) == fsub(x, y).m < 0

One == Fin(1, 0)

\* the Euler-Mascheroni constant, 0.5772...
EulerGamma == Fin(5772, 0 - 4)


Two == Fin(2, 0)

\* x * y
fmul(x, y) ==
    CASE isnan(x) \/ isnan(y)     -> NaN
      [] isinf(x) /\ isinf(y)     -> IF x.k = y.k THEN PInf ELSE NInf
      [] isinf(x)                 -> IF y.m = 0 THEN NaN
                                     ELSE IF (x.k = "pinf") = (y.m > 0) THEN PInf ELSE NInf
      [] isinf(y)                 -> IF x.m = 0 THEN NaN
                                     ELSE IF (y.k = "pinf") = (x.m > 0) THEN PInf ELSE NInf
      [] OTHER                    -> Fin(x.m * y.m, x.e + y.e)

(***************************************************************************)
(* State.                                                                  *)
(***************************************************************************)
VARIABLES
    psiPole,    \* what the installed scipy.special.digamma returns at 0
    inst,       \* the Beta instance: built, dim, params, expectations
    call,       \* the last call made: op and its arguments
    exc,        \* the exception the last call raised, or "none"
    trace,      \* the steps the last call went through, if it was the constructor
    ret,        \* what the last call returned, if it was sample()
    rng,        \* variates drawn so far from numpy's process-wide generator
    writes      \* direct parameter writes made so far

vars == <<psiPole, inst, call, exc, trace, ret, rng, writes>>

(***************************************************************************)
(* scipy.special.digamma, by the recurrence psi(x+1) = psi(x) + 1/x from   *)
(* psi(1) = -gamma.  It covers the arguments the model produces: NaN, the  *)
(* infinities, zero, positive integers, and positive values so small that  *)
(* x + 1 rounds to 1.  At the pole x = 0 cephes' psi returned +inf up to   *)
(* scipy 1.0 and returns -inf since; psiPole holds the installed answer.   *)
(***************************************************************************)
RECURSIVE digamma(_)
digamma(x0) ==
    Let1(x0, LAMBDA x :
        CASE isnan(x)                 -> NaN
          [] x.k = "pinf"             -> PInf
          [] x.k = "ninf"             -> NaN
          [] x.m = 0                  -> psiPole
          [] x.m > 0 /\ flt(x, One)   ->
               Let1(digamma(fadd(x, One)), LAMBDA p : fsub(p, fdiv(One, x)))
          [] x = One                  -> fneg(EulerGamma)
          [] x.m > 0 /\ ~flt(x, Two)  ->
               Let2(fsub(x, One), digamma(fsub(x, One)),
                    LAMBDA y, p : fadd(p, fdiv(One, y))))

(***************************************************************************)
(* Arrays and broadcasting.                                                *)
(***************************************************************************)
Size(shape) == IF Len(shape) = 0 THEN 1 ELSE shape[1]

\* the elements f[1], ..., f[n], each computed once
Elements(f) == f \o <<>>

Arr(shape, data) == [shape |-> shape, data |-> data]

Scalar(v) == Arr(<<>>, <<v>>)

Vec(data) == Arr(<<Len(data)>>, data)

Empty == Arr(<<0>>, <<>>)

\* scipy.ones(dim)
ones(dim) == Arr(dim, Elements([i \in 1..Size(dim) |-> One]))

\* faulty variant: unequal lengths are cut to the shorter one, as zip() would
BroadcastShapeZip(s, t) ==
    IF Len(s) = 0 THEN [ok |-> TRUE, shape |-> t]
    ELSE IF Len(t) = 0 THEN [ok |-> TRUE, shape |-> s]
    ELSE [ok |-> TRUE, shape |-> IF s[1] <= t[1] THEN s ELSE t]

\* numpy's broadcasting rule for two shapes: equal lengths, or one of them 1;
\* anything else is "operands could not be broadcast together" (ValueError)
BroadcastShape(s, t) ==
    IF Len(s) = 0 THEN [ok |-> TRUE, shape |-> t]
    ELSE IF Len(t) = 0 THEN [ok |-> TRUE, shape |-> s]
    ELSE IF s[1] = t[1] THEN [ok |-> TRUE, shape |-> s]
    ELSE IF s[1] = 1 THEN [ok |-> TRUE, shape |-> t]
    ELSE IF t[1] = 1 THEN [ok |-> TRUE, shape |-> s]
    ELSE [ok |-> FALSE, shape |-> <<>>]

\* element i of x as seen through broadcasting
Pick(x, i) == x.data[IF Size(x.shape) = 1 THEN 1 ELSE i]

\* an elementwise binary operation on two broadcastable arrays
Map2(f(_, _), x0, y0) ==
    Let2(x0, y0, LAMBDA x, y :
        Let1(BroadcastShape(x.shape, y.shape).shape, LAMBDA shape :
            Arr(shape, Elements([i \in 1..Size(shape) |->
                                    Let2(Pick(x, i), Pick(y, i), f)]))))

\* an elementwise unary operation
Map1(f(_), x0) ==
    Let1(x0, LAMBDA x :
        Arr(x.shape, Elements([i \in 1..Size(x.shape) |-> Let1(x.data[i], f)])))

\* x[mask] = v
MaskAssign(x0, mask(_), v) ==
    Let1(x0, LAMBDA x :
        Arr(x.shape, Elements([i \in 1..Size(x.shape) |->
                                  IF mask(x.data[i]) THEN v ELSE x.data[i]])))

(***************************************************************************)
(* Inputs.                                                                 *)
(***************************************************************************)
\* 1e-320, a subnormal: strictly positive, and 1/x overflows
Sub == Fin(1, 0 - 320)

\* 1e-8
Tiny == Fin(1, 0 - 8)

Five == Fin(5, 0)

\* the element values parameters are drawn from
Vals == {Zero, Sub, Tiny, Five}

\* declared dimensions: vectors of length 1 .. MaxLen
Dims == {<<n>> : n \in 1..MaxLen}

\* vectors of length n: any first element, the others all 5
Vecs(n) == {Vec([i \in 1..n |-> IF i = 1 THEN v ELSE Five]) : v \in Vals}

\* the a and b arguments: scalars and vectors of length 1 .. MaxLen + 1
InputArrays ==
    {Scalar(v) : v \in Vals} \cup UNION {Vecs(n) : n \in 1..(MaxLen + 1)}

NoneE == [given |-> FALSE, val |-> Empty]

\* the E argument: None, or an expectation of 0.25 for every element
EArgs == {NoneE, [given |-> TRUE, val |-> Scalar(Fin(25, 0 - 2))]}

(***************************************************************************)
(* The Beta class.                                                         *)
(***************************************************************************)
NoParams == [a |-> Empty, b |-> Empty]

NoExpectations == [E |-> Empty, lnE |-> Empty, lnEInv |-> Empty]

NoInst == [built |-> FALSE, dim |-> <<>>, params |-> NoParams,
           expectations |-> NoExpectations]

\* E = s.divide(a,a+b)
expE(a, b) == Map2(fdiv, a, Map2(fadd, a, b))

\* faulty variant: digamma(b) in place of digamma(a)
explnE_b(a, b) ==
    Map2(fsub, Map1(digamma, b), Map1(digamma, Map2(fadd, a, b)))

\* lnE = special.digamma(a) - special.digamma(a+b)
explnE(a, b) ==
    Map2(fsub, Map1(digamma, a), Map1(digamma, Map2(fadd, a, b)))

\* faulty variant: digamma(a) in place of digamma(b)
rawlnEInv_a(a, b) ==
    Map2(fsub, Map1(digamma, a), Map1(digamma, Map2(fadd, a, b)))

\* lnEInv = special.digamma(b) - special.digamma(a+b)
rawlnEInv(a, b) ==
    Map2(fsub, Map1(digamma, b), Map1(digamma, Map2(fadd, a, b)))

\* faulty variant: the correction left out
fixlnEInv_none(x) == x

\* lnEInv[s.isinf(lnEInv)] = -s.inf
fixlnEInv(x) == MaskAssign(x, isinf, NInf)

\* faulty variant: a += b in place before dividing
updateExpectations_inplace(self) ==
    LET a == Map2(fadd, self.params.a, self.params.b)
        b == self.params.b
    IN  IF ~BroadcastShape(self.params.a.shape, b.shape).ok
        THEN [exc |-> "ValueError", self |-> self]
        ELSE [exc  |-> "none",
              self |-> [self EXCEPT !.params.a = a,
                                    !.expectations =
                                        [E      |-> Map2(fdiv, self.params.a, a),
                                         lnE    |-> explnE(self.params.a, b),
                                         lnEInv |-> fixlnEInv(rawlnEInv(self.params.a, b))]]]

\* faulty variant: E is computed once and kept
updateExpectations_keepE(self) ==
    LET a == self.params.a
        b == self.params.b
    IN  IF ~BroadcastShape(a.shape, b.shape).ok
        THEN [exc |-> "ValueError", self |-> self]
        ELSE [exc  |-> "none",
              self |-> [self EXCEPT !.expectations =
                            [E      |-> IF self.built THEN self.expectations.E
                                        ELSE expE(a, b),
                             lnE    |-> explnE(a, b),
                             lnEInv |-> fixlnEInv(rawlnEInv(a, b))]]]

\* Beta.updateExpectations: a+b raises ValueError when the shapes of a and b
\* do not broadcast, and then self.expectations is left as it was
updateExpectations(self) ==
    LET a == self.params.a
        b == self.params.b
    IN  IF ~BroadcastShape(a.shape, b.shape).ok
        THEN [exc |-> "ValueError", self |-> self]
        ELSE [exc  |-> "none",
              self |-> [self EXCEPT !.expectations =
                            [E      |-> expE(a, b),
                             lnE    |-> explnE(a, b),
                             lnEInv |-> fixlnEInv(rawlnEInv(a, b))]]]

\* faulty variant: a supplied E is stored as the expectation
initExpectations_useE(self, E) ==
    LET u == updateExpectations(self)
    IN  IF E.given /\ u.exc = "none"
        THEN [u EXCEPT !.self.expectations.E =
                           Map2(fmul, ones(u.self.expectations.E.shape), E.val)]
        ELSE u

\* __init__, "Initialise expectations": both branches of `if E is None`
\* call self.updateExpectations(); E is not read again
initExpectations(self, E) == updateExpectations(self)

\* faulty variant: the notice is printed in both branches
noticePrinted_always(E) == TRUE

\* __init__: the else branch of `if E is None` prints the notice
noticePrinted(E) == E.given

\* Distribution.__init__(self, dim): keeps the declared dimension
Distribution_init(dim) == [NoInst EXCEPT !.dim = dim]

\* Distribution.CheckDimensionalities: every parameter and expectation array
\* has the declared shape
CheckDimensionalities(self) ==
    /\ \A key \in {"a", "b"} : self.params[key].shape = self.dim
    /\ \A key \in {"E", "lnE", "lnEInv"} : self.expectations[key].shape = self.dim

\* Beta.__init__(dim, a, b, E): the exception raised, the instance, and the
\* steps gone through after the parameters were stored
Beta_init(dim, a, b, E) ==
    LET s0 == Distribution_init(dim)
        s1 == [s0 EXCEPT !.params = [a |-> Map2(fmul, ones(dim), a),
                                     b |-> Map2(fmul, ones(dim), b)]]
        t1 == <<"updateExpectations">>
        t2 == IF noticePrinted(E) THEN Append(t1, "print") ELSE t1
        t3 == Append(t2, "CheckDimensionalities")
    IN  IF ~BroadcastShape(dim, a.shape).ok \/ ~BroadcastShape(dim, b.shape).ok
        THEN [exc |-> "ValueError", self |-> NoInst, trace |-> <<>>]
        ELSE Let1(initExpectations(s1, E), LAMBDA u :
                 IF u.exc # "none"
                 THEN [exc |-> u.exc, self |-> NoInst, trace |-> t1]
                 ELSE IF ~CheckDimensionalities(u.self)
                 THEN [exc |-> "DimensionMismatch", self |-> NoInst, trace |-> t3]
                 ELSE [exc |-> "none", self |-> [u.self EXCEPT !.built = TRUE],
                       trace |-> t3])

\* numpy.random.beta rejects a parameter <= 0 ("a <= 0", "b <= 0")
NonPositive(x) == \E i \in 1..Size(x.shape) : x.data[i].k = "fin" /\ x.data[i].m <= 0

\* faulty variant: the draw is kept as the expectation
sample_store(self, n, r) ==
    LET a == self.params.a
        b == self.params.b
        shape == BroadcastShape(a.shape, b.shape).shape
        draw == Arr(shape, [i \in 1..Size(shape) |-> r + i])
    IN  IF NonPositive(a) \/ NonPositive(b)
        THEN [exc |-> "ValueError", self |-> self, ret |-> Empty, rng |-> r]
        ELSE [exc |-> "none", self |-> [self EXCEPT !.expectations.E = self.params.a],
              ret |-> draw, rng |-> r + Size(shape)]

\* Beta.sample(n): s.random.beta(a, b), one variate for each element; the
\* variates are named by their place in the generator's stream
sample(self, n, r) ==
    LET a == self.params.a
        b == self.params.b
        shape == BroadcastShape(a.shape, b.shape).shape
        draw == Arr(shape, [i \in 1..Size(shape) |-> r + i])
    IN  IF NonPositive(a) \/ NonPositive(b)
        THEN [exc |-> "ValueError", self |-> self, ret |-> Empty, rng |-> r]
        ELSE [exc |-> "none", self |-> self, ret |-> draw, rng |-> r + Size(shape)]

(***************************************************************************)
(* The state machine: one constructor call, then updateExpectations(),     *)
(* sample(n) and direct parameter writes in any order.  An uncaught        *)
(* exception ends the run.                                                 *)
(***************************************************************************)
NoCall == [op |-> "none", dim |-> <<>>, a |-> Empty, b |-> Empty, E |-> NoneE,
           n |-> 0]

Init ==
    /\ psiPole \in {PInf, NInf}
    /\ inst = NoInst
    /\ call = NoCall
    /\ exc = "none"
    /\ trace = <<>>
    /\ ret = Empty
    /\ rng = 0
    /\ writes = 0

Construct ==
    /\ ~inst.built
    /\ exc = "none"
    /\ \E dim \in Dims, a \in InputArrays, b \in InputArrays, E \in EArgs :
         \E r \in {Beta_init(dim, a, b, E)} :
             /\ inst' = r.self
             /\ exc' = r.exc
             /\ trace' = r.trace
             /\ call' = [NoCall EXCEPT !.op = "init", !.dim = dim, !.a = a,
                                       !.b = b, !.E = E]
    /\ UNCHANGED <<psiPole, ret, rng, writes>>

Update ==
    /\ inst.built
    /\ exc = "none"
    /\ \E r \in {updateExpectations(inst)} :
           /\ inst' = r.self
           /\ exc' = r.exc
    /\ call' = [NoCall EXCEPT !.op = "update"]
    /\ trace' = <<>>
    /\ ret' = Empty
    /\ UNCHANGED <<psiPole, rng, writes>>

Sample ==
    /\ inst.built
    /\ exc = "none"
    /\ rng + Size(inst.dim) <= MaxDraws
    /\ \E n \in 1..MaxN :
         \E r \in {sample(inst, n, rng)} :
             /\ inst' = r.self
             /\ exc' = r.exc
             /\ ret' = r.ret
             /\ rng' = r.rng
             /\ call' = [NoCall EXCEPT !.op = "sample", !.n = n]
    /\ trace' = <<>>
    /\ UNCHANGED <<psiPole, writes>>

\* the owning model assigns params['a'] or params['b'] an array of the same shape
Write ==
    /\ inst.built
    /\ exc = "none"
    /\ writes < MaxWrites
    /\ \E key \in {"a", "b"}, v \in InputArrays :
         /\ v.shape = inst.params[key].shape
         /\ inst' = [inst EXCEPT !.params[key] = v]
    /\ call' = [NoCall EXCEPT !.op = "write"]
    /\ writes' = writes + 1
    /\ trace' = <<>>
    /\ ret' = Empty
    /\ UNCHANGED <<psiPole, exc, rng>>

Next == Construct \/ Update \/ Sample \/ Write

Spec == Init /\ [][Next]_vars

(***************************************************************************)
(* What the documentation says the expectations are, for one element with  *)
(* parameters a and b.                                                     *)
(***************************************************************************)
DocE(a, b) == Let1(fadd(a, b), LAMBDA ab : fdiv(a, ab))

DocLnE(a, b) == Let2(digamma(a), digamma(fadd(a, b)), LAMBDA pa, pab : fsub(pa, pab))

DocRawLnEInv(a, b) ==
    Let2(digamma(b), digamma(fadd(a, b)), LAMBDA pb, pab : fsub(pb, pab))

DocLnEInv(a, b) == Let1(DocRawLnEInv(a, b), LAMBDA raw : IF isinf(raw) THEN NInf ELSE raw)

\* the expectations self stores are those of the parameters it stores
ConsistentIn(self) ==
    \A i \in 1..Size(self.dim) : \A a \in {self.params.a.data[i]}, b \in {self.params.b.data[i]} :
        /\ self.expectations.E.data[i] = DocE(a, b)
        /\ self.expectations.lnE.data[i] = DocLnE(a, b)
        /\ self.expectations.lnEInv.data[i] = DocLnEInv(a, b)

Consistent == ConsistentIn(inst)

Idx == 1..Size(inst.dim)

ParamA(i) == inst.params.a.data[i]

ParamB(i) == inst.params.b.data[i]

\* the last call computed the expectations: the constructor or updateExpectations()
Fresh == inst.built /\ call.op \in {"init", "update"}

(***************************************************************************)
(* C1                                                                      *)
(***************************************************************************)
\* C1 as stated: in every reachable state of an instance the expectations
\* E, lnE and lnEInv are those derived from the current parameters.
C1_AlwaysConsistent == inst.built => Consistent

\* C1: the expectations are those of the current parameters after the
\* constructor and after every updateExpectations(), and sample() keeps them
\* so; only a direct parameter write leaves them stale.
C1_ConsistentUnlessWritten ==
    [][\A old \in {inst}, new \in {inst'}, op \in {call'.op} :
          new.built =>
              /\ op \in {"init", "update"} => ConsistentIn(new)
              /\ (op = "sample" /\ ConsistentIn(old)) => ConsistentIn(new)]_vars

C1_Witness ==
    /\ inst.built
    /\ writes = 1
    /\ call.op = "sample"
    /\ Consistent
    /\ inst.params.a # Map2(fmul, ones(inst.dim), inst.params.b)

(***************************************************************************)
(* C2                                                                      *)
(***************************************************************************)
\* C2: Beta(dim, a, b, E) ends as Beta(dim, a, b) does, with the same
\* exception or the same params and expectations, and E is a/(a+b).
C2_SuppliedEIgnored ==
    call.op = "init" =>
        /\ \A r \in {Beta_init(call.dim, call.a, call.b, NoneE)} :
              inst = r.self /\ exc = r.exc
        /\ inst.built =>
              \A i \in Idx : inst.expectations.E.data[i] = DocE(ParamA(i), ParamB(i))

C2_Witness ==
    /\ call.op = "init"
    /\ call.E.given
    /\ inst.built
    /\ inst.dim = <<2>>
    /\ inst.expectations.E.data[2] = Fin(5, 0 - 1)
    /\ inst.expectations.E.data[2] # call.E.val.data[1]

(***************************************************************************)
(* C3                                                                      *)
(***************************************************************************)
\* an array argument whose shape is not the declared dimension
Disagrees(x) == Len(x.shape) > 0 /\ x.shape # call.dim

ParamShapesAreDim ==
    inst.built => inst.params.a.shape = inst.dim /\ inst.params.b.shape = inst.dim

\* C3 as stated: an a or b whose shape disagrees with dim always ends the
\* constructor in DimensionMismatch, and no instance has parameters of a
\* shape other than dim.
C3_MismatchRaisesDimensionMismatch ==
    /\ (call.op = "init" /\ (Disagrees(call.a) \/ Disagrees(call.b))) =>
           exc = "DimensionMismatch" /\ ~inst.built
    /\ ParamShapesAreDim

\* numpy's rule, for an argument of length l against a dimension of length n
Fits(l, n) == l = 1 \/ n = 1 \/ l = n

\* the length of s.ones(dim)*x for an argument of length l that fits
Stretched(l, n) == IF l = 1 THEN n ELSE l

\* C3: no instance has parameters of a shape other than dim.  An argument
\* that does not broadcast against dim, or an a and b that do not broadcast
\* against each other, ends the constructor in numpy's ValueError before the
\* dimensionality check; one that broadcasts to another shape than dim ends
\* it in DimensionMismatch; one of length 1 is stretched to dim and accepted.
C3_MismatchNeverBuilt ==
    /\ ParamShapesAreDim
    /\ call.op = "init" =>
         \A n \in {Size(call.dim)}, la \in {Size(call.a.shape)}, lb \in {Size(call.b.shape)} :
            IF ~Fits(la, n) \/ ~Fits(lb, n)
               \/ ~Fits(Stretched(la, n), Stretched(lb, n))
            THEN exc = "ValueError" /\ ~inst.built
            ELSE IF Stretched(la, n) # n \/ Stretched(lb, n) # n
            THEN exc = "DimensionMismatch" /\ ~inst.built
            ELSE exc = "none" /\ inst.built /\ inst.dim = call.dim

C3_Witness ==
    /\ call.op = "init"
    /\ call.dim = <<1>>
    /\ call.a.shape = <<2>>
    /\ exc = "DimensionMismatch"
    /\ ~inst.built

(***************************************************************************)
(* C4                                                                      *)
(***************************************************************************)
\* C4 as stated: sample(n) returns n draws for each element of the parameter
\* arrays, and for n = 1 an array of the shape of a and b.
C4_SampleDrawsN ==
    (call.op = "sample" /\ exc = "none") =>
        /\ Len(ret.data) = call.n * Size(inst.params.a.shape)
        /\ call.n = 1 => ret.shape = inst.params.a.shape

(***************************************************************************)
(* C5                                                                      *)
(***************************************************************************)
\* C5: sample(n) leaves dim, params and expectations as they were.
C5_SampleLeavesInstance == [][call'.op = "sample" => inst' = inst]_vars

C5_Witness ==
    /\ call.op = "sample"
    /\ exc = "none"
    /\ rng = 2
    /\ ret.shape = <<2>>
    /\ writes = 1

(***************************************************************************)
(* C6                                                                      *)
(***************************************************************************)
\* C6 as stated: after updateExpectations() every lnEInv entry whose raw
\* value digamma(b) - digamma(a+b) is +inf, -inf or NaN is stored as -inf,
\* and no entry is +inf or NaN.
C6_DegenerateStoredNInf ==
    Fresh =>
        \A i \in Idx : \A raw \in {DocRawLnEInv(ParamA(i), ParamB(i))} :
            /\ (isinf(raw) \/ isnan(raw)) => inst.expectations.lnEInv.data[i] = NInf
            /\ inst.expectations.lnEInv.data[i] # PInf
            /\ ~isnan(inst.expectations.lnEInv.data[i])

\* C6: after updateExpectations() every lnEInv entry whose raw value is +inf
\* or -inf is stored as -inf, so no entry is +inf; a raw NaN stays NaN.
C6_InfiniteStoredNInf ==
    Fresh =>
        \A i \in Idx : \A raw \in {DocRawLnEInv(ParamA(i), ParamB(i))} :
            /\ isinf(raw) => inst.expectations.lnEInv.data[i] = NInf
            /\ inst.expectations.lnEInv.data[i] # PInf
            /\ isnan(raw) <=> isnan(inst.expectations.lnEInv.data[i])

C6_Witness ==
    /\ Fresh
    /\ inst.dim = <<2>>
    /\ DocRawLnEInv(ParamA(1), ParamB(1)) = PInf
    /\ inst.expectations.lnEInv.data[1] = NInf
    /\ isfinite(inst.expectations.lnEInv.data[2])

(***************************************************************************)
(* C7                                                                      *)
(***************************************************************************)
\* C7: after an updateExpectations() that follows parameter writes, E is
\* a/(a+b), lnE is digamma(a) - digamma(a+b) and lnEInv is
\* digamma(b) - digamma(a+b) with infinite entries replaced by -inf,
\* element by element.
C7_UpdateComputesFormulas ==
    (inst.built /\ call.op = "update") =>
        /\ \A key \in {"E", "lnE", "lnEInv"} : inst.expectations[key].shape = inst.params.a.shape
        /\ \A i \in Idx : \A a \in {ParamA(i)}, b \in {ParamB(i)} :
              /\ inst.expectations.E.data[i] = fdiv(a, fadd(a, b))
              /\ \A pa \in {digamma(a)}, pb \in {digamma(b)}, pab \in {digamma(fadd(a, b))} :
                    /\ inst.expectations.lnE.data[i] = fsub(pa, pab)
                    /\ inst.expectations.lnEInv.data[i] =
                          (IF fsub(pb, pab) \in {PInf, NInf} THEN NInf ELSE fsub(pb, pab))

C7_Witness ==
    /\ call.op = "update"
    /\ writes = 1
    /\ inst.params.a = Vec(<<Tiny, Five>>)
    /\ inst.params.b = Vec(<<Five, Five>>)
    /\ inst.expectations.E.data[2] = Fin(5, 0 - 1)
    /\ inst.expectations.lnE.data[1].m < 0
    /\ inst.expectations.lnE.data[1].e > 0

(***************************************************************************)
(* C8                                                                      *)
(***************************************************************************)
\* C8 as stated: a = 5, b = 1e-8 gives an lnEInv of -inf exactly, and
\* a = 1e-8, b = 5 a finite one.
C8_TinyBGivesNInf ==
    Fresh =>
        \A i \in Idx :
            /\ (ParamA(i) = Five /\ ParamB(i) = Tiny) => inst.expectations.lnEInv.data[i] = NInf
            /\ (ParamA(i) = Tiny /\ ParamB(i) = Five) => isfinite(inst.expectations.lnEInv.data[i])

\* C8: a = 5, b = 1e-8 gives a finite lnEInv (about -1e8); the entry is -inf
\* exactly where digamma(b) is infinite, at b = 0 and at a b so small that
\* 1/b overflows (1e-320); a = 1e-8, a = 1e-320 or a = 0 with b = 5 gives a
\* finite one.
C8_OnlyInfiniteDigammaGivesNInf ==
    Fresh =>
        \A i \in Idx :
            /\ (ParamA(i) = Five /\ ParamB(i) = Tiny) => isfinite(inst.expectations.lnEInv.data[i])
            /\ (ParamA(i) = Five /\ ParamB(i) \in {Zero, Sub}) =>
                   inst.expectations.lnEInv.data[i] = NInf
            /\ (ParamA(i) \in {Zero, Sub, Tiny} /\ ParamB(i) = Five) =>
                   isfinite(inst.expectations.lnEInv.data[i])

C8_Witness ==
    /\ Fresh
    /\ inst.dim = <<1>>
    /\ ParamA(1) = Five
    /\ ParamB(1) = Tiny
    /\ inst.expectations.lnEInv.data[1] = Fin(0 - 1, 8)

(***************************************************************************)
(* C9                                                                      *)
(***************************************************************************)
Printed == \E j \in 1..Len(trace) : trace[j] = "print"

NoticeInOrder ==
    Printed => trace = <<"updateExpectations", "print", "CheckDimensionalities">>

SameOutcomeWithoutE == exc = Beta_init(call.dim, call.a, call.b, NoneE).exc

\* C9 as stated: the constructor prints the notice if and only if E was
\* supplied, after computing the expectations and before the dimensionality
\* check, and supplying E does not make it fail.
C9_NoticeIffESupplied ==
    call.op = "init" =>
        /\ Printed <=> call.E.given
        /\ NoticeInOrder
        /\ SameOutcomeWithoutE

\* C9: the constructor prints the notice if and only if E was supplied and
\* neither the broadcast of a and b nor the computation of the expectations
\* raised; it prints after computing the expectations and before the
\* dimensionality check, and supplying E does not make it fail.
C9_NoticeIffESuppliedAndComputed ==
    call.op = "init" =>
        /\ Printed <=> (call.E.given /\ exc # "ValueError")
        /\ NoticeInOrder
        /\ SameOutcomeWithoutE

C9_Witness ==
    /\ call.op = "init"
    /\ call.E.given
    /\ exc = "DimensionMismatch"
    /\ trace = <<"updateExpectations", "print", "CheckDimensionalities">>

(***************************************************************************)
(* C10                                                                     *)
(***************************************************************************)
\* C10: updateExpectations() leaves dim and params as they were, and a
\* second call right after a first leaves the expectations as they were.
C10_UpdateKeepsParams ==
    [][call'.op = "update" =>
          /\ inst'.params = inst.params
          /\ inst'.dim = inst.dim
          /\ call.op = "update" => inst'.expectations = inst.expectations]_vars

C10_Witness ==
    /\ call.op = "update"
    /\ writes = 1
    /\ inst.dim = <<2>>
    /\ inst.params.b = Vec(<<Zero, Five>>)
    /\ inst.expectations.lnEInv.data[1] = NInf

=============================================================================
